---- MODULE Spec2Model ----
(***************************************************************************)
(* yew_confetti: the animation loop of the <Confetti> component            *)
(* (src/src/lib.rs).  Simulated time (last_time, delay, start, end) is in  *)
(* whole milliseconds as in the source (u64).  The host's frame timestamp  *)
(* raw_time is an f64 number of milliseconds; it is modelled at a          *)
(* resolution of TicksPerMs ticks per millisecond so that the truncating   *)
(* cast `as u64` of an elapsed time is a real conversion.                  *)
(* Fetti::life_remaining and ConfettiProps::lifespan are f32 seconds in    *)
(* the source; here they are whole milliseconds (delta_time * 0.001 s is   *)
(* delta_time ms), so f32 rounding is not part of the model.               *)
(***************************************************************************)
EXTENDS Integers, Sequences, FiniteSets, TLC

VARIABLES
  confetti,         \* State.confetti: Vec<Fetti>
  callback,         \* State.callback: Option<Closure>
  animation_frame,  \* State.animation_frame: Option<i32>
  last_raw_time,    \* State.last_raw_time: Option<f64>, in ticks
  last_time,        \* State.last_time: u64, in ms
  props,            \* the ConfettiProps captured by the current effect
  effect,           \* "init" | "started" | "torn": position of use_effect_with
  effects,          \* number of times the effect body has run on this instance
  pending,          \* host: handles of the outstanding requestAnimationFrame calls
  now,              \* host: clock at the latest event, in ticks
  prefers_reduced_motion,  \* host: what `(prefers-reduced-motion: reduce)` matches
  emitted,          \* history: per cannon, particles spawned since the effect started
  canvas,           \* what the latest frame drew, in drawing order
  op,               \* history: the latest operation and what it did
  query             \* the emission query under test (query specification only)

vars == <<confetti, callback, animation_frame, last_raw_time, last_time, props,
          effect, effects, pending, now, prefers_reduced_motion, emitted, canvas,
          op, query>>

driverVars == <<confetti, callback, animation_frame, last_raw_time, last_time, props,
                effect, effects, pending, now, prefers_reduced_motion, emitted,
                canvas, op>>

(***************************************************************************)
(* Bounds of the model.                                                    *)
(***************************************************************************)
\* Resolution of the host clock: ticks per millisecond.
TicksPerMs == 2
\* The host clock stops producing frames after this many milliseconds.
MaxRawTime == 1000
\* How many times the effect body may run on one instance (mount + props changes).
MaxEffects == 2

(***************************************************************************)
(* Program constants.                                                      *)
(***************************************************************************)
\* `if total_delta_time > 500`
MAX_STEP == 500
\* `(total_delta_time / 100).max(1)`
SUBSTEP == 100
\* `effective_time % 1000`, and the length of ORDER
ORDER_LEN == 1000
\* `assert!(rate <= 1000)`
MAX_RATE == 1000
\* u64::MAX, the `end` of an unbounded continuous mode.  TLC's integers are
\* 32 bits wide, so the largest of them stands for it; no reachable
\* last_time comes near it.
U64_MAX == 2147483647

\* static ORDER: [u16; 1000]
ORDER ==
  <<
    0, 603, 549, 550, 551, 813, 553, 758, 751, 556, 557, 534, 524, 513, 504, 497, 491, 474, 469, 452,
    447, 439, 433, 418, 415, 406, 397, 383, 381, 352, 346, 315, 306, 288, 268, 255, 248, 991, 228, 210,
    201, 552, 196, 773, 180, 498, 159, 561, 147, 562, 139, 475, 398, 121, 384, 535, 117, 453, 353, 101,
    347, 563, 316, 91, 307, 514, 289, 77, 269, 419, 256, 564, 65, 565, 968, 407, 229, 54, 211, 567,
    202, 385, 690, 569, 45, 476, 695, 368, 181, 571, 348, 35, 160, 317, 881, 454, 148, 894, 505, 290,
    31, 574, 270, 575, 399, 257, 122, 932, 249, 577, 434, 866, 23, 649, 230, 420, 355, 212, 102, 477,
    203, 536, 580, 581, 318, 19, 92, 582, 308, 996, 400, 579, 182, 455, 78, 386, 271, 585, 161, 586,
    258, 587, 588, 13, 66, 356, 589, 440, 570, 591, 140, 861, 231, 478, 55, 319, 213, 790, 627, 123,
    204, 421, 387, 656, 596, 291, 744, 10, 46, 515, 272, 456, 808, 599, 357, 259, 183, 103, 705, 583,
    250, 757, 36, 904, 162, 604, 320, 479, 605, 93, 232, 606, 149, 607, 804, 214, 382, 767, 292, 610,
    6, 79, 611, 358, 273, 612, 613, 422, 401, 457, 197, 614, 124, 615, 953, 617, 67, 321, 618, 619,
    184, 481, 960, 840, 24, 408, 622, 623, 233, 595, 163, 56, 359, 718, 215, 584, 107, 896, 274, 628,
    150, 629, 435, 392, 630, 260, 631, 458, 322, 708, 4, 633, 47, 423, 634, 480, 309, 635, 636, 816,
    402, 367, 638, 639, 185, 125, 234, 712, 88, 641, 349, 642, 275, 37, 643, 409, 164, 644, 645, 323,
    118, 646, 797, 672, 985, 459, 14, 829, 68, 482, 361, 872, 652, 974, 198, 105, 654, 293, 869, 424,
    32, 755, 657, 568, 235, 659, 276, 651, 57, 661, 324, 662, 216, 779, 664, 94, 715, 887, 126, 362,
    205, 736, 165, 460, 251, 410, 668, 669, 725, 671, 294, 650, 673, 600, 2, 81, 25, 675, 403, 676,
    277, 325, 236, 677, 624, 425, 679, 924, 363, 681, 141, 217, 186, 682, 106, 683, 684, 441, 685, 849,
    69, 461, 558, 295, 38, 990, 689, 728, 166, 721, 692, 127, 326, 832, 278, 20, 694, 364, 95, 720,
    237, 863, 697, 698, 151, 58, 699, 862, 701, 702, 218, 426, 119, 703, 954, 660, 187, 984, 707, 442,
    7, 696, 82, 327, 709, 389, 365, 537, 279, 710, 711, 839, 560, 104, 167, 714, 310, 772, 238, 716,
    48, 939, 992, 693, 128, 411, 590, 999, 722, 15, 723, 724, 70, 845, 328, 366, 726, 427, 727, 936,
    188, 96, 280, 548, 525, 730, 731, 982, 26, 733, 142, 538, 949, 735, 640, 39, 239, 737, 738, 390,
    168, 739, 59, 740, 376, 329, 741, 742, 219, 83, 743, 780, 108, 539, 745, 412, 281, 129, 746, 747,
    152, 516, 748, 428, 189, 749, 391, 750, 880, 625, 261, 827, 526, 354, 240, 296, 330, 754, 688, 756,
    1, 11, 885, 598, 49, 759, 169, 220, 602, 761, 282, 762, 311, 388, 763, 764, 527, 540, 506, 765,
    206, 620, 369, 976, 691, 262, 912, 331, 153, 429, 130, 109, 241, 517, 770, 573, 84, 846, 962, 60,
    252, 774, 753, 566, 283, 777, 40, 778, 678, 554, 143, 370, 170, 781, 782, 499, 783, 826, 332, 518,
    27, 297, 785, 786, 528, 787, 788, 97, 831, 937, 242, 791, 16, 864, 507, 413, 71, 793, 284, 794,
    371, 795, 796, 131, 784, 221, 798, 621, 50, 333, 110, 952, 492, 801, 298, 263, 802, 830, 171, 680,
    8, 805, 508, 85, 806, 541, 807, 593, 243, 372, 809, 519, 253, 632, 811, 500, 61, 812, 594, 814,
    334, 393, 815, 686, 154, 21, 817, 299, 888, 483, 98, 819, 820, 821, 822, 823, 132, 41, 373, 578,
    207, 825, 898, 944, 172, 501, 244, 828, 72, 111, 144, 335, 647, 958, 766, 666, 493, 833, 509, 834,
    190, 835, 836, 222, 799, 264, 470, 374, 3, 838, 86, 542, 28, 559, 837, 394, 404, 964, 842, 843,
    208, 844, 336, 717, 245, 928, 510, 847, 496, 133, 173, 929, 957, 62, 850, 851, 375, 484, 789, 853,
    33, 597, 223, 462, 191, 502, 855, 994, 112, 857, 616, 859, 971, 337, 199, 17, 592, 841, 626, 608,
    73, 865, 246, 824, 867, 360, 300, 868, 42, 395, 776, 485, 529, 775, 871, 265, 174, 87, 472, 810,
    448, 224, 134, 873, 338, 920, 875, 576, 192, 877, 5, 878, 495, 879, 377, 555, 51, 909, 882, 301,
    209, 883, 884, 856, 886, 486, 891, 113, 155, 670, 63, 889, 890, 752, 471, 339, 892, 443, 893, 463,
    225, 543, 175, 378, 29, 874, 895, 818, 897, 732, 899, 900, 74, 520, 901, 135, 902, 903, 200, 487,
    9, 959, 905, 544, 80, 266, 340, 906, 907, 908, 350, 983, 379, 910, 436, 911, 156, 464, 769, 43,
    449, 913, 914, 915, 916, 302, 114, 771, 176, 918, 919, 870, 312, 488, 921, 12, 193, 341, 922, 923,
    52, 380, 601, 925, 926, 521, 473, 64, 136, 927, 145, 430, 530, 860, 511, 465, 760, 719, 18, 931,
    450, 444, 876, 933, 75, 665, 935, 489, 342, 545, 351, 89, 713, 700, 177, 22, 531, 938, 800, 940,
    194, 941, 99, 942, 285, 115, 943, 663, 416, 945, 946, 303, 947, 466, 948, 667, 30, 226, 950, 343,
    34, 137, 437, 445, 951, 854, 858, 706, 955, 956, 44, 637, 157, 546, 609, 503, 729, 648, 286, 961,
    178, 930, 963, 522, 53, 414, 917, 965, 313, 966, 344, 467, 967, 655, 969, 490, 76, 970, 90, 653,
    451, 972, 973, 431, 116, 100, 438, 852, 532, 523, 146, 975, 120, 658, 138, 803, 978, 304, 979, 980,
    158, 345, 405, 981, 934, 768, 179, 687, 195, 468, 792, 986, 254, 987, 988, 227, 494, 989, 704, 547,
    267, 572, 734, 993, 417, 674, 287, 446, 247, 432, 305, 995, 314, 848, 512, 997, 533, 998, 977, 396
  >>

(***************************************************************************)
(* Option<T>                                                               *)
(***************************************************************************)
None == << >>
Some(x) == << x >>
unwrap(o) == o[1]
unwrap_or(o, d) == IF o = None THEN d ELSE o[1]
\* The values an Option holds: none or one.
elements(o) == {o[k] : k \in DOMAIN o}

Max(a, b) == IF a >= b THEN a ELSE b
Min(a, b) == IF a <= b THEN a ELSE b

(***************************************************************************)
(* ModeImpl, the emission mode of a cannon.                                *)
(***************************************************************************)
Burst(count, delay) ==
  [kind |-> "Burst", count |-> count, delay |-> delay]
Continuous(rate, start, end) ==
  [kind |-> "Continuous", rate |-> rate, start |-> start, end |-> end]

(***************************************************************************)
(* The constructors of Mode.  A time argument (f32 seconds) is a whole     *)
(* number of ticks, TicksPerMs to the millisecond, and may be negative;    *)
(* a constructor returns Some(mode), or None when an assert! panics.       *)
(***************************************************************************)
\* `(seconds * 1000.0).round() as u64`: to the nearest millisecond, halves
\* away from zero; the cast saturates a negative value at 0.
round_time(seconds) ==
  IF seconds < 0 THEN 0 ELSE (2 * seconds + TicksPerMs) \div (2 * TicksPerMs)

\* `rate as u16`
as_u16(n) == n % 65536

\* Mode::burst
burst(count) == Some(Burst(count, 0))

\* Mode::delayed_burst
delayed_burst(count, delay) ==
  IF delay >= 0 THEN Some(Burst(count, round_time(delay))) ELSE None

\* Mode::continuous
continuous(rate) ==
  IF rate <= MAX_RATE THEN Some(Continuous(as_u16(rate), 0, U64_MAX)) ELSE None

\* Variant of delayed_continuous: the rate is clamped instead of asserted.
delayed_continuous_Clamped(rate, delay) ==
  IF delay >= 0
  THEN Some(Continuous(Min(rate, MAX_RATE), round_time(delay), U64_MAX))
  ELSE None

\* Mode::delayed_continuous
delayed_continuous(rate, delay) ==
  IF rate <= MAX_RATE /\ delay >= 0
  THEN Some(Continuous(as_u16(rate), round_time(delay), U64_MAX))
  ELSE None

\* Mode::finite_continuous
finite_continuous(rate, duration) ==
  IF rate <= MAX_RATE /\ duration >= 0
  THEN Some(Continuous(as_u16(rate), 0, round_time(duration)))
  ELSE None

\* Mode::delayed_finite_continuous
delayed_finite_continuous(rate, delay, duration) ==
  IF rate <= MAX_RATE /\ delay >= 0 /\ duration >= 0
  THEN Some(Continuous(as_u16(rate), round_time(delay), round_time(delay + duration)))
  ELSE None

(***************************************************************************)
(* The count of particles a cannon emits in the substep                    *)
(* [start_time, end_time): the `let count = match cannon.props.mode.0`     *)
(* of the frame callback.                                                  *)
(***************************************************************************)
\* Variant of BurstCount: the interval taken as closed, start_time..=end_time.
BurstCount_Inclusive(count, delay, start_time, end_time) ==
  IF start_time <= delay /\ delay <= end_time THEN count ELSE 0

\* ModeImpl::Burst: `(start_time..end_time).contains(&delay)`
BurstCount(count, delay, start_time, end_time) ==
  IF start_time <= delay /\ delay < end_time THEN count ELSE 0

\* Variant of ContinuousCount: the clipped interval taken as closed.
ContinuousCount_Inclusive(rate, start, end, start_time, end_time) ==
  LET effective_start_time == Max(start_time, start)
      effective_end_time == Min(end_time, end)
  IN IF rate > 0 /\ effective_end_time > effective_start_time
     THEN Cardinality({effective_time \in effective_start_time..effective_end_time :
                         rate > ORDER[(effective_time % ORDER_LEN) + 1]})
     ELSE 0

\* Variant of ContinuousCount: `rate >= ORDER[...]`, without the rate > 0 test.
ContinuousCount_AtLeast(rate, start, end, start_time, end_time) ==
  LET effective_start_time == Max(start_time, start)
      effective_end_time == Min(end_time, end)
  IN IF effective_end_time > effective_start_time
     THEN Cardinality({effective_time \in effective_start_time..(effective_end_time - 1) :
                         rate >= ORDER[(effective_time % ORDER_LEN) + 1]})
     ELSE 0

\* ModeImpl::Continuous: the milliseconds of the clipped interval whose
\* ORDER entry is below the rate.
ContinuousCount(rate, start, end, start_time, end_time) ==
  LET effective_start_time == Max(start_time, start)
      effective_end_time == Min(end_time, end)
  IN IF rate > 0 /\ effective_end_time > effective_start_time
     THEN Cardinality({effective_time \in effective_start_time..(effective_end_time - 1) :
                         rate > ORDER[(effective_time % ORDER_LEN) + 1]})
     ELSE 0

EmitCount(mode, start_time, end_time) ==
  IF mode.kind = "Burst"
  THEN BurstCount(mode.count, mode.delay, start_time, end_time)
  ELSE ContinuousCount(mode.rate, mode.start, mode.end, start_time, end_time)

(***************************************************************************)
(* Fetti.  A particle keeps the cannon it came from (which fixes x, y,     *)
(* colour and shape distributions), the simulated time of its spawn        *)
(* (history) and life_remaining; its geometry is not part of the state.    *)
(***************************************************************************)
\* Fetti::new
FettiNew(p, cannon, born) ==
  [cannon |-> cannon, born |-> born, life_remaining |-> p.lifespan]

\* Fetti::update, the fields kept: `self.life_remaining -= delta`
FettiUpdate(fetti, delta) ==
  [fetti EXCEPT !.life_remaining = @ - delta]

\* Variant of FettiAlive: `self.life_remaining >= 0.0`
FettiAlive_NonNegative(fetti) == fetti.life_remaining >= 0

\* Fetti::update's result: `self.life_remaining > 0.0`
FettiAlive(fetti) == fetti.life_remaining > 0

\* `state.confetti.retain_mut(|fetti| fetti.update(raw_delta, &props))`
RetainUpdated(list, delta) ==
  SelectSeq([k \in 1..Len(list) |-> FettiUpdate(list[k], delta)], FettiAlive)

(***************************************************************************)
(* Fetti::update with the geometry.  Speeds (velocity, drift, gravity) are  *)
(* thousandths of a unit per second, delta and life_remaining are          *)
(* milliseconds, x and y are millionths of a unit, decay is in thousandths. *)
(* angle_2d is 0 throughout, the one angle whose sine and cosine are exact *)
(* in f32.                                                                 *)
(***************************************************************************)
\* `self.angle_2d.cos()`, `self.angle_2d.sin()` at angle_2d = 0
cos(angle_2d) == 1
sin(angle_2d) == 0

\* `props.decay.powf(delta)`, in thousandths, for decay 0.0 and decay 1.0:
\* powf(x, 0.0) is 1.0 for every x.
powf(decay, delta) ==
  IF delta = 0 \/ decay = 1000 THEN 1000 ELSE 0

\* Variant of update: gravity added to, not taken from, the vertical speed.
update_GravityAdded(self, delta, p) ==
  LET next == [self EXCEPT
                 !.x = @ + (cos(self.angle_2d) * self.velocity + p.drift) * delta,
                 !.y = @ + (sin(self.angle_2d) * self.velocity + p.gravity) * delta,
                 !.velocity = (@ * powf(p.decay, delta)) \div 1000,
                 !.life_remaining = @ - delta]
  IN [fetti |-> next, alive |-> next.life_remaining > 0]

\* Fetti::update
update(self, delta, p) ==
  LET next == [self EXCEPT
                 !.x = @ + (cos(self.angle_2d) * self.velocity + p.drift) * delta,
                 !.y = @ + (sin(self.angle_2d) * self.velocity - p.gravity) * delta,
                 !.velocity = (@ * powf(p.decay, delta)) \div 1000,
                 !.life_remaining = @ - delta]
  IN [fetti |-> next, alive |-> next.life_remaining > 0]

\* Fetti::draw, the alpha it sets: life_remaining / props.lifespan
FettiDraw(fetti, p) ==
  [cannon |-> fetti.cannon, born |-> fetti.born,
   alpha_num |-> fetti.life_remaining, alpha_den |-> p.lifespan]

(***************************************************************************)
(* The frame callback, `Closure::new(move |raw_time: f64| ...)`.           *)
(***************************************************************************)
\* Variant of as_u64: rounds up to the next whole millisecond.
as_u64_RoundedUp(ticks) ==
  IF ticks < 0 THEN 0 ELSE (ticks + TicksPerMs - 1) \div TicksPerMs

\* `as u64` of an f64 number of milliseconds: truncates, saturates at 0.
as_u64(ticks) == IF ticks < 0 THEN 0 ELSE ticks \div TicksPerMs

\* `(raw_time - state.last_raw_time.unwrap_or(raw_time)) as u64`
Elapsed(raw_time, last_raw) == as_u64(raw_time - unwrap_or(last_raw, raw_time))

\* Variant of Skipped: the excess is dropped, last_time is not moved over it.
Skipped_Dropped(elapsed) == 0

\* `state.last_time += total_delta_time - 500` when total_delta_time > 500
Skipped(elapsed) == IF elapsed > MAX_STEP THEN elapsed - MAX_STEP ELSE 0

\* total_delta_time after `total_delta_time = 500`
Clamped(elapsed) == IF elapsed > MAX_STEP THEN MAX_STEP ELSE elapsed

\* Variant of Substeps: substeps twice as long.
Substeps_Halved(total_delta_time) == Max(total_delta_time \div (2 * SUBSTEP), 1)

\* `let substeps = (total_delta_time / 100).max(1)`
Substeps(total_delta_time) == Max(total_delta_time \div SUBSTEP, 1)

\* Variant of DeltaTime: the step is not divided among the substeps.
DeltaTime_Undivided(total_delta_time) == total_delta_time

\* `let delta_time = total_delta_time / substeps`
DeltaTime(total_delta_time) == total_delta_time \div Substeps(total_delta_time)

\* `for _ in 0..count { state.confetti.push(Fetti::new(&props, &cannon.props)) }`
\* for the cannons from index i on, in order.
RECURSIVE SpawnFrom(_, _, _, _)
SpawnFrom(i, p, start_time, end_time) ==
  IF i > Len(p.children) THEN << >>
  ELSE [k \in 1..EmitCount(p.children[i], start_time, end_time) |->
          FettiNew(p, i, start_time)]
       \o SpawnFrom(i + 1, p, start_time, end_time)

\* Variant of Substep: the new particles are put in front of the list.
Substep_Prepend(p, delta_time, st) ==
  LET start_time == st.last_time
      end_time == start_time + delta_time
  IN [confetti |-> RetainUpdated(SpawnFrom(1, p, start_time, end_time) \o st.confetti,
                                 delta_time),
      last_time |-> end_time,
      emitted |-> [i \in 1..Len(p.children) |->
                     st.emitted[i] + EmitCount(p.children[i], start_time, end_time)]]

\* Variant of Substep: the particles are advanced and pruned before the
\* cannons are queried, so a new particle is not advanced in its own substep.
Substep_UpdateFirst(p, delta_time, st) ==
  LET start_time == st.last_time
      end_time == start_time + delta_time
  IN [confetti |-> RetainUpdated(st.confetti, delta_time)
                     \o SpawnFrom(1, p, start_time, end_time),
      last_time |-> end_time,
      emitted |-> [i \in 1..Len(p.children) |->
                     st.emitted[i] + EmitCount(p.children[i], start_time, end_time)]]

\* One iteration of `for _ in 0..substeps`, on st = [confetti, last_time, emitted].
Substep(p, delta_time, st) ==
  LET start_time == st.last_time
      end_time == start_time + delta_time
  IN [confetti |-> RetainUpdated(st.confetti \o SpawnFrom(1, p, start_time, end_time),
                                 delta_time),
      last_time |-> end_time,
      emitted |-> [i \in 1..Len(p.children) |->
                     st.emitted[i] + EmitCount(p.children[i], start_time, end_time)]]

RECURSIVE RunSubsteps(_, _, _, _)
RunSubsteps(n, p, delta_time, st) ==
  IF n = 0 THEN st
  ELSE RunSubsteps(n - 1, p, delta_time, Substep(p, delta_time, st))

\* Variant of Done: the emitters are not consulted.
Done_ParticlesOnly(list, p, time) == Len(list) = 0

\* Variant of Done: the particles are not consulted.
Done_EmittersOnly(list, p, time) ==
  \A i \in 1..Len(p.children) :
    LET mode == p.children[i]
    IN IF mode.kind = "Burst" THEN time > mode.delay ELSE time > mode.end

\* Variant of Done: `any` for `all` over the cannons.
Done_Any(list, p, time) ==
  /\ Len(list) = 0
  /\ \E i \in 1..Len(p.children) :
       LET mode == p.children[i]
       IN IF mode.kind = "Burst" THEN time > mode.delay ELSE time > mode.end

\* Variant of Done: a burst never counts as finished.
Done_NoBurst(list, p, time) ==
  /\ Len(list) = 0
  /\ \A i \in 1..Len(p.children) :
       LET mode == p.children[i]
       IN IF mode.kind = "Burst" THEN FALSE ELSE time > mode.end

\* `let done = state.confetti.is_empty() && props.children.iter().all(...)`
Done(list, p, time) ==
  /\ Len(list) = 0
  /\ \A i \in 1..Len(p.children) :
       LET mode == p.children[i]
       IN IF mode.kind = "Burst" THEN time > mode.delay ELSE time > mode.end

\* The handle the host returns from requestAnimationFrame: one not in use.
NewHandle(inUse) == CHOOSE h \in 1..(Cardinality(inUse) + 1) : h \notin inUse

\* Variant of FrameStep: the next frame is requested whether or not the
\* frame is done.
FrameStep_AlwaysRequest(gap) ==
  \E h \in pending :
    /\ callback # None
    /\ LET p == unwrap(props)
           raw_time == now + gap
           elapsed == Elapsed(raw_time, last_raw_time)
           total_delta_time == Clamped(elapsed)
           substeps == Substeps(total_delta_time)
           delta_time == DeltaTime(total_delta_time)
           queue == pending \ {h}
       IN \E st \in {RunSubsteps(substeps, p, delta_time,
                                  [confetti |-> confetti,
                                   last_time |-> last_time + Skipped(elapsed),
                                   emitted |-> emitted])} :
          LET done == Done(st.confetti, p, st.last_time)
          IN
          /\ confetti' = st.confetti
          /\ last_time' = st.last_time
          /\ emitted' = st.emitted
          /\ canvas' = [k \in 1..Len(st.confetti) |-> FettiDraw(st.confetti[k], p)]
          /\ last_raw_time' = IF done THEN None ELSE Some(raw_time)
          /\ animation_frame' = Some(NewHandle(queue))
          /\ pending' = queue \cup {NewHandle(queue)}
          /\ now' = raw_time
          /\ op' = [name |-> "frame", handle |-> h, raw_time |-> raw_time,
                    elapsed |-> elapsed, substeps |-> substeps,
                    delta_time |-> delta_time, from |-> last_time,
                    spawned |-> [i \in 1..Len(p.children) |-> st.emitted[i] - emitted[i]],
                    done |-> done]
    /\ UNCHANGED <<callback, props, effect, effects, prefers_reduced_motion, query>>

\* The callback runs for the request h at the host time now + gap.
FrameStep(gap) ==
  \E h \in pending :
    /\ callback # None
    /\ LET p == unwrap(props)
           raw_time == now + gap
           elapsed == Elapsed(raw_time, last_raw_time)
           total_delta_time == Clamped(elapsed)
           substeps == Substeps(total_delta_time)
           delta_time == DeltaTime(total_delta_time)
           queue == pending \ {h}
       IN \E st \in {RunSubsteps(substeps, p, delta_time,
                                  [confetti |-> confetti,
                                   last_time |-> last_time + Skipped(elapsed),
                                   emitted |-> emitted])} :
          LET done == Done(st.confetti, p, st.last_time)
          IN
          /\ confetti' = st.confetti
          /\ last_time' = st.last_time
          /\ emitted' = st.emitted
          /\ canvas' = [k \in 1..Len(st.confetti) |-> FettiDraw(st.confetti[k], p)]
          /\ last_raw_time' = IF done THEN None ELSE Some(raw_time)
          /\ animation_frame' = IF done THEN None ELSE Some(NewHandle(queue))
          /\ pending' = IF done THEN queue ELSE queue \cup {NewHandle(queue)}
          /\ now' = raw_time
          /\ op' = [name |-> "frame", handle |-> h, raw_time |-> raw_time,
                    elapsed |-> elapsed, substeps |-> substeps,
                    delta_time |-> delta_time, from |-> last_time,
                    spawned |-> [i \in 1..Len(p.children) |-> st.emitted[i] - emitted[i]],
                    done |-> done]
    /\ UNCHANGED <<callback, props, effect, effects, prefers_reduced_motion, query>>

Frame(gap) ==
  /\ now + gap <= MaxRawTime * TicksPerMs
  /\ FrameStep(gap)

(***************************************************************************)
(* use_effect_with((canvas, props), ...): the effect body and its cleanup. *)
(***************************************************************************)
\* Variant of ShouldRequest: the preference is not consulted.
ShouldRequest_Always(p, reduced) == TRUE

\* `!disable_for_reduced_motion || !prefers-reduced-motion`
ShouldRequest(p, reduced) == ~p.disable_for_reduced_motion \/ ~reduced

\* Variant of Start: the effect body resets the clock of the State.
Start_Reset(p, reduced) ==
  /\ effect \in {"init", "torn"}
  /\ effects < MaxEffects
  /\ Some(p) # props
  /\ reduced = prefers_reduced_motion
  /\ callback' = Some("closure")
  /\ animation_frame' = IF ShouldRequest(p, reduced)
                        THEN Some(NewHandle(pending)) ELSE animation_frame
  /\ pending' = IF ShouldRequest(p, reduced)
                THEN pending \cup {NewHandle(pending)} ELSE pending
  /\ props' = Some(p)
  /\ effect' = "started"
  /\ effects' = effects + 1
  /\ emitted' = [i \in 1..Len(p.children) |-> 0]
  /\ op' = [name |-> "start", reduced |-> reduced,
            requested |-> ShouldRequest(p, reduced)]
  /\ last_raw_time' = None
  /\ last_time' = 0
  /\ UNCHANGED <<confetti, now, prefers_reduced_motion, canvas, query>>

\* The effect body: runs at mount and after every change of the props.
Start(p, reduced) ==
  /\ effect \in {"init", "torn"}
  /\ effects < MaxEffects
  /\ Some(p) # props
  /\ reduced = prefers_reduced_motion
  /\ callback' = Some("closure")
  /\ animation_frame' = IF ShouldRequest(p, reduced)
                        THEN Some(NewHandle(pending)) ELSE animation_frame
  /\ pending' = IF ShouldRequest(p, reduced)
                THEN pending \cup {NewHandle(pending)} ELSE pending
  /\ props' = Some(p)
  /\ effect' = "started"
  /\ effects' = effects + 1
  /\ emitted' = [i \in 1..Len(p.children) |-> 0]
  /\ op' = [name |-> "start", reduced |-> reduced,
            requested |-> ShouldRequest(p, reduced)]
  /\ UNCHANGED <<confetti, last_raw_time, last_time, now, prefers_reduced_motion,
                 canvas, query>>

\* Variant of Cleanup: the pending request is not cancelled.
Cleanup_NoCancel(frame, cb) ==
  [animation_frame |-> None, callback |-> None, cancel |-> None]

\* Variant of Cleanup: the handle is read, not taken.
Cleanup_NoTake(frame, cb) ==
  [animation_frame |-> frame, callback |-> None, cancel |-> frame]

\* The cleanup closure on the State fields it touches:
\* `state.animation_frame.take()` (cancelled when Some), `state.callback.take()`.
Cleanup(frame, cb) ==
  [animation_frame |-> None, callback |-> None, cancel |-> frame]

\* Variant of Teardown: the cleanup also empties the particle list and
\* forgets the last raw timestamp.
Teardown_Clear ==
  /\ effect = "started"
  /\ LET r == Cleanup(animation_frame, callback)
     IN /\ animation_frame' = r.animation_frame
        /\ callback' = r.callback
        /\ pending' = pending \ elements(r.cancel)
        /\ op' = [name |-> "teardown", cancel |-> r.cancel]
  /\ effect' = "torn"
  /\ confetti' = << >>
  /\ last_raw_time' = None
  /\ UNCHANGED <<last_time, props, effects, now,
                 prefers_reduced_motion, emitted, canvas, query>>

\* The cleanup: runs before the next effect body and at unmount.
Teardown ==
  /\ effect = "started"
  /\ LET r == Cleanup(animation_frame, callback)
     IN /\ animation_frame' = r.animation_frame
        /\ callback' = r.callback
        /\ pending' = pending \ elements(r.cancel)
        /\ op' = [name |-> "teardown", cancel |-> r.cancel]
  /\ effect' = "torn"
  /\ UNCHANGED <<confetti, last_raw_time, last_time, props, effects, now,
                 prefers_reduced_motion, emitted, canvas, query>>

\* The user changes the reduced-motion preference.  The component registers no
\* listener on the media query, so nothing of the component runs.
SetReducedMotion ==
  /\ prefers_reduced_motion' = ~prefers_reduced_motion
  /\ UNCHANGED <<confetti, callback, animation_frame, last_raw_time, last_time,
                 props, effect, effects, pending, now, emitted, canvas, op, query>>

(***************************************************************************)
(* Inputs.                                                                 *)
(***************************************************************************)
\* ConfettiProps: lifespan (ms), disable_for_reduced_motion, and the modes of
\* the <Cannon/> children.
ConfettiProps(lifespan, disable, children) ==
  [lifespan |-> lifespan, disable_for_reduced_motion |-> disable, children |-> children]

PropsSet ==
  { ConfettiProps(150, TRUE, << Burst(2, 0) >>),
    ConfettiProps(250, FALSE, << Burst(1, 150), Continuous(MAX_RATE, 100, 102) >>),
    ConfettiProps(120, TRUE, << Continuous(3, 0, U64_MAX) >>),
    ConfettiProps(100, TRUE, << Continuous(0, 0, U64_MAX) >>),
    ConfettiProps(100, TRUE, << Continuous(1, 0, 100) >>),
    ConfettiProps(100, TRUE, << >>) }

\* Host time between two events, in ticks: 0 ms, a fraction over 100 ms,
\* 199 ms, 240 ms, 250 ms, 501 ms.
Gaps ==
  {0, 100 * TicksPerMs + 1, 199 * TicksPerMs, 240 * TicksPerMs, 250 * TicksPerMs,
   501 * TicksPerMs}

(***************************************************************************)
(* The component.                                                          *)
(***************************************************************************)
\* State::default(), before the effect has run.
Init ==
  /\ confetti = << >>
  /\ callback = None
  /\ animation_frame = None
  /\ last_raw_time = None
  /\ last_time = 0
  /\ props = None
  /\ effect = "init"
  /\ effects = 0
  /\ pending = {}
  /\ now = 0
  /\ prefers_reduced_motion \in BOOLEAN
  /\ emitted = << >>
  /\ canvas = << >>
  /\ op = [name |-> "init"]
  /\ query = None

Next ==
  \/ \E p \in PropsSet, reduced \in BOOLEAN : Start(p, reduced)
  \/ \E gap \in Gaps : Frame(gap)
  \/ Teardown
  \/ SetReducedMotion

Spec == Init /\ [][Next]_vars

(***************************************************************************)
(* The loop under fair scheduling: one mount with emitters that all end,   *)
(* the host delivering every requested frame, at least 1 ms after the      *)
(* previous one.                                                           *)
(***************************************************************************)
IsFinite(p) ==
  \A i \in 1..Len(p.children) :
    p.children[i].kind = "Continuous" => p.children[i].end < U64_MAX

FinitePropsSet == {p \in PropsSet : IsFinite(p)}

\* Configurations whose delays, windows and lifespan are a few milliseconds.
ShortPropsSet ==
  { ConfettiProps(3, FALSE, << Burst(1, 2), Continuous(MAX_RATE, 1, 3) >>),
    ConfettiProps(2, TRUE, << Burst(2, 0) >>) }

\* Host time between two frames, at least 1 ms: for the short configurations
\* frames 1 ms and a fraction over 1 ms apart (and one long pause), for the
\* others a display's usual frame interval and the longer gaps.
LiveGaps(p) ==
  IF p \in ShortPropsSet
  THEN {TicksPerMs, TicksPerMs + 1, 501 * TicksPerMs}
  ELSE {gap \in Gaps \cup {16 * TicksPerMs + 1} : gap >= TicksPerMs}

LiveStart == \E p \in FinitePropsSet \cup ShortPropsSet, reduced \in BOOLEAN : Start(p, reduced)

LiveFrame == props # None /\ \E gap \in LiveGaps(unwrap(props)) : FrameStep(gap)

LiveNext == LiveStart \/ LiveFrame

LiveSpec == Init /\ [][LiveNext]_vars /\ WF_vars(LiveStart) /\ WF_vars(LiveFrame)

(***************************************************************************)
(* One configuration on a fresh instance, with the host's timestamp of the *)
(* first frame on record: the host clock starts at that timestamp, and the *)
(* first frame runs at it.                                                 *)
(***************************************************************************)
\* The host's timestamp of the first frame, in ticks.
ClockOrigins == {0, 1, 16 * TicksPerMs + 1, 250 * TicksPerMs}

ClockInit ==
  /\ confetti = << >>
  /\ callback = None
  /\ animation_frame = None
  /\ last_raw_time = None
  /\ last_time = 0
  /\ props = None
  /\ effect = "init"
  /\ effects = 0
  /\ pending = {}
  /\ now \in ClockOrigins
  /\ prefers_reduced_motion = FALSE
  /\ emitted = << >>
  /\ canvas = << >>
  /\ op = [name |-> "init"]
  /\ query = Some([first |-> now])

ClockStart == \E p \in PropsSet : Start(p, FALSE)

ClockFrame ==
  \E gap \in Gaps :
    /\ op.name = "start" => gap = 0
    /\ Frame(gap)

ClockNext == ClockStart \/ ClockFrame

ClockSpec == ClockInit /\ [][ClockNext]_vars

(***************************************************************************)
(* The emission count as a function: an interval [a, c) is queried whole   *)
(* and in the two parts [a, b) and [b, c).                                 *)
(***************************************************************************)
QueryRates == {0, 1, 3, 100, 999, MAX_RATE}

QueryModes ==
  {Continuous(rate, 0, U64_MAX) : rate \in QueryRates}
    \cup {Continuous(rate, 250, 1750) : rate \in QueryRates}
    \cup {Burst(2, 0), Burst(1, 250), Burst(3, 999), Burst(0, 1000)}

QueryStarts == {0, 1, 250, 999, 1500}

QueryLens == {0, 1, 99, 500, 901, 999, ORDER_LEN}

QueryInit ==
  /\ confetti = << >>
  /\ callback = None
  /\ animation_frame = None
  /\ last_raw_time = None
  /\ last_time = 0
  /\ props = None
  /\ effect = "init"
  /\ effects = 0
  /\ pending = {}
  /\ now = 0
  /\ prefers_reduced_motion = FALSE
  /\ emitted = << >>
  /\ canvas = << >>
  /\ op = [name |-> "init"]
  /\ \E mode \in QueryModes, a \in QueryStarts :
       query = Some([mode |-> mode, a |-> a, b |-> a, c |-> a,
                     ab |-> 0, bc |-> 0, ac |-> 0, asked |-> FALSE])

Query(len1, len2) ==
  /\ ~unwrap(query).asked
  /\ LET q == unwrap(query)
         b == q.a + len1
         c == b + len2
     IN query' = Some([q EXCEPT !.b = b, !.c = c,
                                !.ab = EmitCount(q.mode, q.a, b),
                                !.bc = EmitCount(q.mode, b, c),
                                !.ac = EmitCount(q.mode, q.a, c),
                                !.asked = TRUE])
  /\ UNCHANGED driverVars

QueryNext == \E len1 \in QueryLens, len2 \in QueryLens : Query(len1, len2)

QuerySpec == QueryInit /\ [][QueryNext]_vars

(***************************************************************************)
(* The constructors of Mode as functions: each is called once on           *)
(* arguments drawn from small sets.                                        *)
(***************************************************************************)
Constructors ==
  {"burst", "delayed_burst", "continuous", "delayed_continuous",
   "finite_continuous", "delayed_finite_continuous"}

\* rate (or count): below, at and above the maximum, and above u16::MAX.
ModeRates == {0, 100, MAX_RATE, MAX_RATE + 1, 65536 + 100}

\* delay and duration, in ticks: negative, zero, a fraction of 1 ms, whole ms.
ModeTimes == {-TicksPerMs, -1, 0, 1, TicksPerMs, 150 * TicksPerMs + 1}

Construct(fn, rate, delay, duration) ==
  CASE fn = "burst" -> burst(rate)
    [] fn = "delayed_burst" -> delayed_burst(rate, delay)
    [] fn = "continuous" -> continuous(rate)
    [] fn = "delayed_continuous" -> delayed_continuous(rate, delay)
    [] fn = "finite_continuous" -> finite_continuous(rate, duration)
    [] fn = "delayed_finite_continuous" -> delayed_finite_continuous(rate, delay, duration)

ModeInit ==
  /\ confetti = << >>
  /\ callback = None
  /\ animation_frame = None
  /\ last_raw_time = None
  /\ last_time = 0
  /\ props = None
  /\ effect = "init"
  /\ effects = 0
  /\ pending = {}
  /\ now = 0
  /\ prefers_reduced_motion = FALSE
  /\ emitted = << >>
  /\ canvas = << >>
  /\ op = [name |-> "init"]
  /\ \E fn \in Constructors, rate \in ModeRates, delay \in ModeTimes,
        duration \in ModeTimes :
       query = Some([fn |-> fn, rate |-> rate, delay |-> delay,
                     duration |-> duration, called |-> FALSE, result |-> None])

Call ==
  /\ ~unwrap(query).called
  /\ LET q == unwrap(query)
     IN query' = Some([q EXCEPT !.called = TRUE,
                                !.result = Construct(q.fn, q.rate, q.delay, q.duration)])
  /\ UNCHANGED driverVars

ModeNext == Call

ModeSpec == ModeInit /\ [][ModeNext]_vars

(***************************************************************************)
(* Fetti::update as a function: one particle, new under a configuration,   *)
(* is advanced once.                                                       *)
(***************************************************************************)
\* velocity of the particle; gravity and drift of the configuration.
FettiSpeeds == {-1000, 0, 500, 1000}

\* decay of the configuration.
FettiDecays == {0, 1000}

\* lifespan of the configuration.
FettiLifespans == {1000, 2500}

\* delta of the advance.
FettiDeltas == {0, 100, 1000}

FettiInit ==
  /\ confetti = << >>
  /\ callback = None
  /\ animation_frame = None
  /\ last_raw_time = None
  /\ last_time = 0
  /\ props = None
  /\ effect = "init"
  /\ effects = 0
  /\ pending = {}
  /\ now = 0
  /\ prefers_reduced_motion = FALSE
  /\ emitted = << >>
  /\ canvas = << >>
  /\ op = [name |-> "init"]
  /\ \E velocity \in FettiSpeeds \ {-1000}, gravity \in FettiSpeeds,
        drift \in FettiSpeeds, decay \in FettiDecays,
        lifespan \in FettiLifespans :
       LET new == [x |-> 500000, y |-> 500000, velocity |-> velocity,
                   angle_2d |-> 0, life_remaining |-> lifespan]
       IN query = Some([props |-> [gravity |-> gravity, drift |-> drift,
                                   decay |-> decay, lifespan |-> lifespan],
                        before |-> new, delta |-> 0, advanced |-> FALSE,
                        after |-> new, alive |-> TRUE])

Advance(delta) ==
  /\ ~unwrap(query).advanced
  /\ LET q == unwrap(query)
         r == update(q.before, delta, q.props)
     IN query' = Some([q EXCEPT !.delta = delta, !.advanced = TRUE,
                                !.after = r.fetti, !.alive = r.alive])
  /\ UNCHANGED driverVars

FettiNext == \E delta \in FettiDeltas : Advance(delta)

FettiSpec == FettiInit /\ [][FettiNext]_vars

(***************************************************************************)
(* Properties.                                                             *)
(***************************************************************************)
Children == IF props = None THEN << >> ELSE unwrap(props).children

AfterFrame == op.name = "frame"

\* C1 (as claimed): on a fresh instance a burst emitter with count N and
\* delay D has spawned nothing while the simulated clock has not passed D
\* and exactly N particles once it has, whatever the frame timestamps.
C1_BurstFiresExactlyOnce ==
  effects = 1 =>
    \A i \in 1..Len(Children) :
      Children[i].kind = "Burst" =>
        emitted[i] = IF last_time > Children[i].delay THEN Children[i].count ELSE 0

\* C2 (as claimed): the effect body that follows a configuration change
\* starts from a fresh clock, last_time = 0 and last_raw_time = None.
C2_FreshClockAfterRestart ==
  (op.name = "start" /\ effects >= 2) => (last_time = 0 /\ last_raw_time = None)

\* C2 (amended): the cleanup and the effect body of a configuration change
\* leave last_time and last_raw_time as they were: the clock of the old
\* configuration carries over to the new loop.
C2_ClockCarriesOver ==
  [][effect' # effect => (last_time' = last_time /\ last_raw_time' = last_raw_time)]_vars

C2_Witness ==
  /\ op.name = "start"
  /\ effects >= 2
  /\ last_time > 0
  /\ last_raw_time # None

\* Work an emitter or a particle still has at the end of a frame.
PendingWork ==
  \/ Len(confetti) > 0
  \/ \E i \in 1..Len(Children) :
       \/ Children[i].kind = "Burst" /\ last_time <= Children[i].delay
       \/ Children[i].kind = "Continuous" /\ last_time < Children[i].end

\* C3: at the end of a frame, while a particle is live, a burst has not
\* reached its delay or a continuous window has not ended, the callback has
\* requested the next frame.
C3_KeepsRunningWhileWorkPending ==
  (AfterFrame /\ PendingWork) =>
    (~op.done /\ animation_frame # None /\ unwrap(animation_frame) \in pending)

C3_Witness ==
  /\ AfterFrame
  /\ Len(confetti) = 0
  /\ Len(Children) = 1
  /\ Children[1].kind = "Continuous"
  /\ Children[1].rate = 0
  /\ Children[1].end = U64_MAX
  /\ last_time > 0
  /\ animation_frame # None

Idle ==
  /\ effect = "started"
  /\ animation_frame = None
  /\ pending = {}
  /\ Len(confetti) = 0

\* C4: with emitters that all end, a finite lifespan and frames at least
\* 1 ms apart, the loop eventually is idle for good: no particle is left
\* and no frame is requested.
C4_EventuallyIdle == <>[]Idle

C4_Witness ==
  /\ Idle
  /\ AfterFrame
  /\ op.done
  /\ \E i \in 1..Len(Children) : emitted[i] > 0

\* C5: while the effect is torn down no frame request is outstanding, the
\* callback cannot run, and nothing has run since the cleanup.
C5_NoFrameAfterTeardown ==
  effect = "torn" =>
    /\ pending = {}
    /\ animation_frame = None
    /\ callback = None
    /\ op.name = "teardown"
    /\ ~ENABLED (\E gap \in Gaps : FrameStep(gap))

C5_Witness ==
  /\ effect = "torn"
  /\ op.cancel # None
  /\ Len(confetti) > 0

\* C6: the cleanup run with no frame pending cancels nothing and leaves
\* animation_frame = None and callback = None; run again on the state a
\* cleanup has left, it cancels nothing and leaves that state as it is.
C6_TeardownIdempotent ==
  LET r == Cleanup(animation_frame, callback)
  IN /\ (effect = "started" /\ animation_frame = None) =>
          (r.cancel = None /\ r.animation_frame = None /\ r.callback = None)
     /\ effect = "torn" =>
          (r.cancel = None /\ r.animation_frame = animation_frame
             /\ r.callback = callback)

C6_Witness ==
  /\ effect = "torn"
  /\ op.cancel = None
  /\ last_time > 0

Asked == query # None /\ unwrap(query).asked

InWindow(q) == q.mode.start <= q.a /\ q.c <= q.mode.end

\* C7: for a continuous emitter and a <= b <= c inside its window, the
\* counts for [a, b) and [b, c) add up to the count for [a, c).
C7_IntervalDecomposition ==
  (Asked /\ unwrap(query).mode.kind = "Continuous" /\ InWindow(unwrap(query))) =>
    unwrap(query).ab + unwrap(query).bc = unwrap(query).ac

C7_Witness ==
  /\ Asked
  /\ unwrap(query).mode.kind = "Continuous"
  /\ InWindow(unwrap(query))
  /\ unwrap(query).ab > 0
  /\ unwrap(query).bc > 0
  /\ unwrap(query).ac < unwrap(query).c - unwrap(query).a

\* ORDER holds every value of 0..999 once.
OrderIsPermutation ==
  /\ Len(ORDER) = ORDER_LEN
  /\ {ORDER[i] : i \in 1..ORDER_LEN} = 0..(ORDER_LEN - 1)

\* C8: ORDER is a permutation of 0..999, and for a continuous emitter of
\* rate R any 1000 consecutive milliseconds inside the window emit R
\* particles, queried whole or in two parts; rate 0 emits nothing and rate
\* 1000 emits once per millisecond.
C8_RatePerSecond ==
  /\ OrderIsPermutation
  /\ (Asked /\ unwrap(query).mode.kind = "Continuous" /\ InWindow(unwrap(query))) =>
       LET q == unwrap(query)
       IN /\ q.c - q.a = ORDER_LEN =>
               (q.ac = q.mode.rate /\ q.ab + q.bc = q.mode.rate)
          /\ q.mode.rate = 0 => (q.ab = 0 /\ q.bc = 0 /\ q.ac = 0)
          /\ q.mode.rate = MAX_RATE =>
               (q.ab = q.b - q.a /\ q.bc = q.c - q.b /\ q.ac = q.c - q.a)

C8_Witness ==
  /\ Asked
  /\ unwrap(query).mode.kind = "Continuous"
  /\ unwrap(query).mode.rate = 100
  /\ InWindow(unwrap(query))
  /\ unwrap(query).a = 250
  /\ unwrap(query).b = 349
  /\ unwrap(query).c = 1250
  /\ unwrap(query).ac = 100

\* C9: for a burst emitter with count N and delay D, the count for an
\* interval [start, end) is N when start <= D < end and 0 otherwise.
C9_BurstCount ==
  (Asked /\ unwrap(query).mode.kind = "Burst") =>
    LET q == unwrap(query)
        Expected(start, end) ==
          IF start <= q.mode.delay /\ q.mode.delay < end THEN q.mode.count ELSE 0
    IN /\ q.ab = Expected(q.a, q.b)
       /\ q.bc = Expected(q.b, q.c)
       /\ q.ac = Expected(q.a, q.c)

C9_Witness ==
  /\ Asked
  /\ unwrap(query).mode.kind = "Burst"
  /\ unwrap(query).mode.count > 0
  /\ unwrap(query).ab = 0
  /\ unwrap(query).b = unwrap(query).mode.delay
  /\ unwrap(query).bc = unwrap(query).mode.count
  /\ unwrap(query).ac = unwrap(query).mode.count

\* C10 (as claimed): every frame has at least one substep and no substep is
\* longer than 100 ms.
C10_SubstepAtMost100 ==
  AfterFrame => (op.substeps >= 1 /\ op.delta_time <= SUBSTEP)

\* C10 (amended): every frame has at least one substep and every substep is
\* shorter than 200 ms.
C10_SubstepBelow200 ==
  AfterFrame => (op.substeps >= 1 /\ op.delta_time < 2 * SUBSTEP)

C10_Witness ==
  /\ AfterFrame
  /\ op.substeps = 1
  /\ op.delta_time > SUBSTEP

\* C11 (as claimed): in a frame whose raw elapsed time exceeds 500 ms the
\* excess is dropped, so last_time advances by at most 500 ms in that frame.
C11_AdvancesAtMost500 ==
  (AfterFrame /\ op.elapsed > MAX_STEP) => last_time - op.from <= MAX_STEP

\* C11 (amended): in a frame whose raw elapsed time exceeds 500 ms the
\* excess is skipped, not simulated: last_time is moved over the excess
\* before the substeps, which cover the last 500 ms, so last_time advances
\* by the whole elapsed time.
C11_ExcessSkipped ==
  (AfterFrame /\ op.elapsed > MAX_STEP) =>
    /\ last_time - op.from = op.elapsed
    /\ op.substeps * op.delta_time = MAX_STEP

C11_Witness ==
  /\ AfterFrame
  /\ op.elapsed > MAX_STEP
  /\ op.from > 0
  /\ \E i \in 1..Len(Children) : op.spawned[i] > 0

\* C12: the substeps of one frame cover at most 500 ms of simulated time,
\* and a continuous emitter spawns at most 500 particles in one frame.
C12_NoCatchUpBurst ==
  AfterFrame =>
    /\ op.substeps * op.delta_time <= MAX_STEP
    /\ \A i \in 1..Len(Children) :
         Children[i].kind = "Continuous" => op.spawned[i] <= MAX_STEP

C12_Witness ==
  /\ AfterFrame
  /\ op.elapsed > MAX_STEP
  /\ op.substeps > 1
  /\ op.substeps * op.delta_time = MAX_STEP
  /\ \E i \in 1..Len(Children) :
       Children[i].kind = "Continuous" /\ op.spawned[i] > 0

\* The effect body found disable_for_reduced_motion set and the host
\* preferring reduced motion, and the effect has not been torn down since.
StartedReduced ==
  /\ op.name = "start"
  /\ unwrap(props).disable_for_reduced_motion
  /\ op.reduced

\* The state of the frame loop.
loopVars == <<confetti, callback, animation_frame, last_raw_time, last_time,
              pending, canvas, emitted>>

\* C13: when the effect body runs with disable_for_reduced_motion set and
\* the host preferring reduced motion, no frame is requested and none can
\* run until the effect is torn down; a change of the preference alone
\* leaves the loop as it is, stopped or running.
C13_ReducedMotionSampledAtStart ==
  /\ [](StartedReduced =>
          /\ ~op.requested
          /\ animation_frame = None
          /\ pending = {})
  /\ [][StartedReduced => op'.name # "frame"]_vars
  /\ [][prefers_reduced_motion' # prefers_reduced_motion =>
          UNCHANGED loopVars]_vars

\* Not started because of the preference, which has changed since.
C13_Witness ==
  /\ StartedReduced
  /\ ~prefers_reduced_motion
  /\ effect = "started"
  /\ pending = {}

\* The particles of list with more than delta of life left.
Outliving(list, delta) ==
  {k \in 1..Len(list) : list[k].life_remaining > delta}

\* One substep of length delta from the current state.
SubstepNow(delta) ==
  Substep(unwrap(props), delta,
          [confetti |-> confetti, last_time |-> last_time, emitted |-> emitted])

\* Substep lengths tried on a state: none, a full substep, and the whole
\* remaining life of each live particle.
SubstepLens == {0, SUBSTEP} \cup {confetti[k].life_remaining : k \in 1..Len(confetti)}

\* Two records of one particle: the same cannon, the same
\* moment of birth.
Same(f, g) == f.cannon = g.cannon /\ f.born = g.born

\* C14: a particle's life_remaining never increases; a substep removes
\* exactly the particles whose life_remaining it brings to zero or below,
\* so every particle of the list has life_remaining > 0 after a substep.
C14_RemovedWhenLifeEnds ==
  /\ [](/\ \A k \in 1..Len(confetti) : confetti[k].life_remaining > 0
        /\ props # None =>
             \A delta \in SubstepLens :
               LET after == SubstepNow(delta).confetti
                   kept == Cardinality(Outliving(confetti, delta))
               IN /\ \A k \in 1..Len(after) : after[k].life_remaining > 0
                  /\ Len(after) >= kept
                  /\ \A k \in 1..kept : after[k].born < last_time
                  /\ \A k \in (kept + 1)..Len(after) : after[k].born = last_time)
  /\ [][\A k \in 1..Len(confetti') :
          \A j \in 1..Len(confetti) :
            Same(confetti[j], confetti'[k]) =>
              confetti'[k].life_remaining <= confetti[j].life_remaining]_vars

\* A live particle with exactly one 125 ms substep of life left.
C14_Witness ==
  /\ AfterFrame
  /\ op.delta_time > SUBSTEP
  /\ \E k \in 1..Len(confetti) : confetti[k].life_remaining = op.delta_time

\* C15 (as claimed): every particle is drawn with an alpha
\* life_remaining / lifespan in [0, 1], lifespan being that of the
\* configuration in force at the draw, also across configuration changes.
C15_AlphaInUnitInterval ==
  \A k \in 1..Len(canvas) :
    /\ canvas[k].alpha_den > 0
    /\ 0 <= canvas[k].alpha_num
    /\ canvas[k].alpha_num <= canvas[k].alpha_den

Called == query # None /\ unwrap(query).called

ContinuousConstructors ==
  {"continuous", "delayed_continuous", "finite_continuous",
   "delayed_finite_continuous"}

\* C16: a constructor of a continuous Mode called with rate > 1000 panics
\* and yields no Mode; a Mode it yields has the rate it was given, never a
\* clamped one, and that rate is at most 1000.
C16_RateValidated ==
  (Called /\ unwrap(query).fn \in ContinuousConstructors) =>
    LET q == unwrap(query)
    IN /\ q.rate > MAX_RATE => q.result = None
       /\ q.result # None =>
            /\ unwrap(q.result).rate = q.rate
            /\ unwrap(q.result).rate <= MAX_RATE

C16_Witness ==
  /\ Called
  /\ unwrap(query).fn = "delayed_continuous"
  /\ unwrap(query).rate = MAX_RATE + 1
  /\ unwrap(query).delay > 0
  /\ unwrap(query).result = None

\* C17 (as claimed): delayed_continuous panics if delay isn't positive,
\* finite_continuous if duration isn't positive, delayed_finite_continuous
\* if either isn't; no Mode is produced then.
C17_PanicsUnlessPositive ==
  Called =>
    LET q == unwrap(query)
    IN /\ (q.fn = "delayed_continuous" /\ q.delay <= 0) => q.result = None
       /\ (q.fn = "finite_continuous" /\ q.duration <= 0) => q.result = None
       /\ (q.fn = "delayed_finite_continuous" /\ (q.delay <= 0 \/ q.duration <= 0)) =>
            q.result = None

\* C18: at most one frame request is outstanding, and it is the one held in
\* animation_frame, across frames, teardowns and restarts.
C18_OneRequestOutstanding ==
  /\ Cardinality(pending) <= 1
  /\ pending = elements(animation_frame)

\* A request is outstanding after a frame of a restarted loop.
C18_Witness ==
  /\ AfterFrame
  /\ effects >= 2
  /\ Cardinality(pending) = 1
  /\ Len(confetti) > 0

\* C19 (as claimed): on a fresh instance a burst with delay 0 has emitted
\* its count of particles by the end of the first frame callback.
C19_BurstOnFirstFrame ==
  (effects = 1 /\ AfterFrame) =>
    \A i \in 1..Len(Children) :
      (Children[i].kind = "Burst" /\ Children[i].delay = 0) =>
        emitted[i] = Children[i].count

\* The loop has stopped: nothing requested, the State's handle and raw
\* timestamp cleared.
Stopped ==
  /\ op.done
  /\ pending = {}
  /\ animation_frame = None
  /\ last_raw_time = None

\* C20 (as claimed): at the end of a frame with no particle left, every
\* burst's delay before the clock and every continuous window ended
\* (clock >= end), the loop stops.
C20_StopsAtEnd ==
  (/\ AfterFrame
   /\ Len(confetti) = 0
   /\ \A i \in 1..Len(Children) :
        \/ Children[i].kind = "Burst" /\ Children[i].delay < last_time
        \/ Children[i].kind = "Continuous" /\ last_time >= Children[i].end)
  => Stopped

\* C20 (amended): at the end of a frame with no particle left, every
\* burst's delay before the clock and every continuous window's end before
\* the clock (clock > end), the loop stops.
C20_StopsAfterEnd ==
  (/\ AfterFrame
   /\ Len(confetti) = 0
   /\ \A i \in 1..Len(Children) :
        \/ Children[i].kind = "Burst" /\ Children[i].delay < last_time
        \/ Children[i].kind = "Continuous" /\ last_time > Children[i].end)
  => Stopped

C20_Witness ==
  /\ AfterFrame
  /\ Len(confetti) = 0
  /\ \E i \in 1..Len(Children) : Children[i].kind = "Burst" /\ emitted[i] > 0
  /\ \A i \in 1..Len(Children) :
       \/ Children[i].kind = "Burst" /\ Children[i].delay < last_time
       \/ Children[i].kind = "Continuous" /\ last_time > Children[i].end
  /\ Stopped

\* The milliseconds t of [s, e) inside the window of a continuous mode at
\* which a particle is due: rate > ORDER[t mod 1000].
DueTimes(mode, s, e) ==
  {t \in s..(e - 1) :
     /\ mode.start <= t
     /\ t < mode.end
     /\ mode.rate > ORDER[(t % ORDER_LEN) + 1]}

\* C21: the count of a continuous emitter for [s, e) is the number of
\* milliseconds t with max(s, start) <= t < min(e, end) and
\* rate > ORDER[t mod 1000]; it is 0 when the clipped interval is empty.
C21_ContinuousCountClipped ==
  (Asked /\ unwrap(query).mode.kind = "Continuous") =>
    LET q == unwrap(query)
        Clipped(s, e) == Max(s, q.mode.start) >= Min(e, q.mode.end)
    IN /\ q.ab = Cardinality(DueTimes(q.mode, q.a, q.b))
       /\ q.bc = Cardinality(DueTimes(q.mode, q.b, q.c))
       /\ q.ac = Cardinality(DueTimes(q.mode, q.a, q.c))
       /\ Clipped(q.a, q.b) => q.ab = 0
       /\ Clipped(q.b, q.c) => q.bc = 0
       /\ Clipped(q.a, q.c) => q.ac = 0

\* A query reaching over the end of the window: particles up to the end,
\* none after it.
C21_Witness ==
  /\ Asked
  /\ unwrap(query).mode.kind = "Continuous"
  /\ unwrap(query).mode.start < unwrap(query).a
  /\ unwrap(query).b < unwrap(query).mode.end
  /\ unwrap(query).mode.end < unwrap(query).c
  /\ unwrap(query).ab > 0
  /\ unwrap(query).bc > 0
  /\ unwrap(query).bc < unwrap(query).mode.end - unwrap(query).b

\* The clock at the first substep of the frame just run.
FirstStart == op.from + Skipped(op.elapsed)

\* The start times of the substeps of the frame just run.
SubstepStarts == {FirstStart + k * op.delta_time : k \in 0..(op.substeps - 1)}

\* The particles of the list spawned in the frame just run.
SpawnedNow == {k \in 1..Len(confetti) : confetti[k].born >= FirstStart}

\* C22: the substeps of a frame cover contiguous half-open intervals from
\* the clock at the frame's start, each emitter is queried once per substep
\* in list order, and a particle is spawned before the clock and the
\* particles are advanced: it is advanced (and pruned) in its own substep.
C22_SubstepOrder ==
  (AfterFrame /\ op.delta_time > 0) =>
    /\ last_time = FirstStart + op.substeps * op.delta_time
    /\ \A i \in 1..Len(Children) :
         op.spawned[i] = EmitCount(Children[i], FirstStart, last_time)
    /\ \A k \in SpawnedNow :
         /\ confetti[k].born \in SubstepStarts
         /\ confetti[k].life_remaining =
              unwrap(props).lifespan - (last_time - confetti[k].born)
    /\ \A j, k \in SpawnedNow :
         j < k =>
           \/ confetti[j].born < confetti[k].born
           \/ /\ confetti[j].born = confetti[k].born
              /\ confetti[j].cannon <= confetti[k].cannon

\* Particles of two cannons, spawned in two substeps of one frame, are live
\* at its end.
C22_Witness ==
  /\ AfterFrame
  /\ op.substeps >= 2
  /\ \E j, k \in SpawnedNow :
       /\ confetti[j].born < confetti[k].born
       /\ confetti[j].cannon # confetti[k].cannon

\* f was pushed to the list no later than g: in an earlier substep, or in
\* the same substep by a cannon not later in the list of cannons.
PushedBefore(f, g) ==
  \/ f.born < g.born
  \/ f.born = g.born /\ f.cannon <= g.cannon

\* C23: the particle list keeps insertion order through frames, prunings,
\* teardowns and restarts, and a redraw clears the canvas and draws the
\* list in order: the canvas shows exactly the live particles, a particle
\* spawned later after (on top of) one spawned earlier.
C23_InsertionOrder ==
  /\ \A j, k \in 1..Len(confetti) :
       j < k => PushedBefore(confetti[j], confetti[k])
  /\ Len(canvas) = Len(confetti)
  /\ \A k \in 1..Len(canvas) :
       /\ canvas[k].cannon = confetti[k].cannon
       /\ canvas[k].born = confetti[k].born
       /\ canvas[k].alpha_num = confetti[k].life_remaining

\* After a frame that pruned the list, an older particle is drawn under a
\* newer one.
C23_Witness ==
  /\ AfterFrame
  /\ Len(canvas) >= 2
  /\ canvas[1].born < op.from
  /\ canvas[1].born < canvas[Len(canvas)].born
  /\ canvas[1].alpha_num < canvas[Len(canvas)].alpha_num

\* The step is a run of the frame callback.
FrameRuns == op'.name = "frame" /\ UNCHANGED prefers_reduced_motion

\* C24: a frame callback run with no emitter and no particle spawns
\* nothing and leaves the loop idle; a frame with zero elapsed time spawns
\* nothing and takes no life from any particle.
C24_EmptyAndZeroLength ==
  [][FrameRuns =>
       /\ (Len(Children) = 0 /\ Len(confetti) = 0) =>
            /\ confetti' = << >>
            /\ emitted' = << >>
            /\ op'.done
            /\ pending' = {}
            /\ animation_frame' = None
       /\ op'.elapsed = 0 =>
            /\ \A i \in 1..Len(Children) : op'.spawned[i] = 0
            /\ confetti' = confetti
            /\ last_time' = last_time]_vars

\* The loop of a fresh instance without emitters has gone idle in its first
\* frame.
C24_Witness ==
  /\ AfterFrame
  /\ effects = 1
  /\ Len(Children) = 0
  /\ op.elapsed = 0
  /\ op.done
  /\ pending = {}

Advanced == query # None /\ unwrap(query).advanced

\* gravity = 1.0, drift = 0, decay = 1.0, lifespan = 1.0 s; angle_2d = 0,
\* velocity = 1.0; dt = 1.0 s.
UnitCase(q) ==
  /\ q.props.gravity = 1000
  /\ q.props.drift = 0
  /\ q.props.decay = 1000
  /\ q.props.lifespan = 1000
  /\ q.before.angle_2d = 0
  /\ q.before.velocity = 1000
  /\ q.delta = 1000

\* C25: with gravity 1.0, drift 0, decay 1.0 and lifespan 1.0 s, a particle
\* with angle_2d 0 and velocity 1.0 advanced by 1.0 s has x increased by 1.0
\* and y decreased by 1.0, its velocity unchanged, its life_remaining 0, and
\* is reported dead.
C25_UnitAdvance ==
  (Advanced /\ UnitCase(unwrap(query))) =>
    LET q == unwrap(query)
    IN /\ q.after.x = q.before.x + 1000000
       /\ q.after.y = q.before.y - 1000000
       /\ q.after.velocity = q.before.velocity
       /\ q.after.life_remaining = 0
       /\ ~q.alive

C25_Witness ==
  /\ Advanced
  /\ UnitCase(unwrap(query))
  /\ unwrap(query).after.x > unwrap(query).before.x
  /\ ~unwrap(query).alive

\* C26: while a frame request is outstanding the callback is Some, so the
\* unwrap that re-requests a frame cannot fail; only teardown clears the
\* callback, and it cancels the outstanding request in the same step.
C26_CallbackWhileRequested ==
  /\ [](pending # {} => callback # None)
  /\ [][(callback # None /\ callback' = None) =>
          /\ op'.name = "teardown"
          /\ op'.cancel = animation_frame
          /\ pending' = {}
          /\ animation_frame' = None]_vars

\* A teardown has cancelled the outstanding request of a running loop.
C26_Witness ==
  /\ op.name = "teardown"
  /\ op.cancel # None
  /\ callback = None
  /\ pending = {}
  /\ Len(confetti) > 0

\* C27: during one configuration on a fresh instance the simulated clock
\* never decreases, and after every frame it is at most the host time, in
\* milliseconds, from the first frame's timestamp to that frame's.
C27_ClockBehindHost ==
  /\ [](AfterFrame =>
          last_time * TicksPerMs <= op.raw_time - unwrap(query).first)
  /\ [][last_time' >= last_time]_vars

\* The simulated clock has fallen behind the host clock by the fractions of
\* a millisecond the frames lost.
C27_Witness ==
  /\ AfterFrame
  /\ unwrap(query).first > 0
  /\ last_time > MAX_STEP
  /\ (last_time + 1) * TicksPerMs <= op.raw_time - unwrap(query).first

\* The last frame found the loop done, and the effect has not been torn
\* down since.
GoneIdle == AfterFrame /\ op.done

\* C28: once the loop has gone idle no frame is outstanding, and until the
\* effect is torn down (for a new configuration or an unmount) no frame
\* runs and the particle list, the clock and the canvas stay as they are.
C28_IdleUntilRestart ==
  /\ [](GoneIdle => (pending = {} /\ animation_frame = None))
  /\ [][GoneIdle => (op'.name = "teardown" \/ UNCHANGED <<loopVars, op>>)]_vars

\* The loop has gone idle after emitting, and the preference has changed
\* since the loop started.
C28_Witness ==
  /\ GoneIdle
  /\ effect = "started"
  /\ last_time > 0
  /\ \E i \in 1..Len(Children) : emitted[i] > 0
  /\ unwrap(props).disable_for_reduced_motion
  /\ prefers_reduced_motion

\* C29: the teardown changes only the frame handle and the callback; the
\* particle list, last_time and last_raw_time are as they were, and the
\* next effect body leaves them too, so the particles live at the teardown
\* are in the list, with their remaining life, when the next loop starts.
C29_TeardownKeepsParticles ==
  /\ [][(effect = "started" /\ effect' = "torn") =>
          UNCHANGED <<confetti, last_time, last_raw_time, emitted, canvas, props>>]_vars
  /\ [][(effect = "torn" /\ effect' = "started") =>
          UNCHANGED <<confetti, last_time, last_raw_time, canvas>>]_vars

\* A restarted loop is about to run its first frame with particles of the
\* previous configuration in the list.
C29_Witness ==
  /\ op.name = "start"
  /\ effects >= 2
  /\ pending # {}
  /\ Len(confetti) > 0
  /\ last_raw_time # None
  /\ \E k \in 1..Len(confetti) :
       confetti[k].life_remaining > unwrap(props).lifespan - last_time
====
